---- MODULE Spec2Model ----
(***************************************************************************)
(* Model of the trading-flag decision engine of Hemi_the_robot             *)
(* (src/src/engine.py): the confidence scoring function, the gating of a   *)
(* ticker signal, and the creation of trading flags in the store.          *)
(*                                                                         *)
(* Numbers.  Percentages and scores are Python floats in the source.  The  *)
(* model keeps them as exact fixed-point integers:                         *)
(*   - reddit_velocity_pct and the rounded confidence score are counted in *)
(*     hundredths (Scale per unit), the precision of round(x, 2);          *)
(*   - the unrounded factor contributions are counted in thousandths       *)
(*     (Milli per point);                                                  *)
(*   - health_score and the mention counts are whole numbers.              *)
(* Velocities are drawn from multiples of 0.25, which binary floats hold   *)
(* exactly, so every float operation of the source on them is exact and    *)
(* round(score, 2) is the round-half-to-even of Round2.                    *)
(***************************************************************************)
EXTENDS Integers, Sequences, FiniteSets, TLC

\* ---------------------------------------------------------------------
\* Optional values: Python's None is the empty sequence, a value x is <<x>>.
\* ---------------------------------------------------------------------
None == <<>>

Some(x) == <<x>>

\* Python truthiness of an Optional[int]: None and 0 are falsy.
Truthy(opt) == opt # None /\ opt[1] # 0

\* ---------------------------------------------------------------------
\* Units and thresholds
\* ---------------------------------------------------------------------
Scale == 100

Milli == 1000

APEWISDOM_TOP_N == 20

REDDIT_VELOCITY_THRESHOLD == 20 * Scale

MIN_HEALTH_SCORE == 60

MIN_CONFIDENCE_SCORE == 70 * Scale

\* ---------------------------------------------------------------------
\* calculate_confidence_score
\* ---------------------------------------------------------------------

\* round(score, 2): thousandths to hundredths, ties to the even neighbour.
Round2(x) ==
    LET q == x \div 10
        r == x % 10
    IN  IF r > 5 \/ (r = 5 /\ q % 2 = 1) THEN q + 1 ELSE q

\* Variant of rank_score with the first step written as a strict comparison.
rank_score_strict(td) ==
    IF td.apewisdom_rank[1] < 5 THEN 30
    ELSE IF td.apewisdom_rank[1] <= 10 THEN 25
    ELSE IF td.apewisdom_rank[1] <= 20 THEN 20
    ELSE 10

\* Factor 1: ApeWisdom rank, in points; only evaluated for a truthy rank.
rank_score(td) ==
    IF td.apewisdom_rank[1] <= 5 THEN 30
    ELSE IF td.apewisdom_rank[1] <= 10 THEN 25
    ELSE IF td.apewisdom_rank[1] <= 20 THEN 20
    ELSE 10

\* Variant of velocity_score with the points of the two middle steps exchanged.
velocity_score_swapped(td) ==
    LET velocity == td.reddit_velocity_pct
    IN  IF velocity >= 100 * Scale THEN 30 * Milli
        ELSE IF velocity >= 50 * Scale THEN 20 * Milli
        ELSE IF velocity >= 20 * Scale THEN 25 * Milli
        ELSE (10 * (velocity * (Milli \div Scale))) \div 20

\* Variant of velocity_score whose taper never goes below zero.
velocity_score_floor_zero(td) ==
    LET velocity == td.reddit_velocity_pct
    IN  IF velocity >= 100 * Scale THEN 30 * Milli
        ELSE IF velocity >= 50 * Scale THEN 25 * Milli
        ELSE IF velocity >= 20 * Scale THEN 20 * Milli
        ELSE IF velocity < 0 THEN 0
        ELSE (10 * (velocity * (Milli \div Scale))) \div 20

\* Factor 2: Reddit velocity, in thousandths of a point.
velocity_score(td) ==
    LET velocity == td.reddit_velocity_pct
    IN  IF velocity >= 100 * Scale THEN 30 * Milli
        ELSE IF velocity >= 50 * Scale THEN 25 * Milli
        ELSE IF velocity >= 20 * Scale THEN 20 * Milli
        ELSE (10 * (velocity * (Milli \div Scale))) \div 20

\* Factor 3: fundamental health, in thousandths of a point.
health_contribution(td) == (td.health_score * 25 * Milli) \div 100

\* apewisdom_mentions + reddit_mentions_24h
TotalMentions(td) == td.apewisdom_mentions + td.reddit_mentions_24h

\* Factor 4: mention volume, in points.
mention_score(td) ==
    LET total_mentions == td.apewisdom_mentions + td.reddit_mentions_24h
    IN  IF total_mentions >= 1000 THEN 15
        ELSE IF total_mentions >= 500 THEN 12
        ELSE IF total_mentions >= 100 THEN 10
        ELSE 5

\* The scoring breakdown: a map from factor name to contribution (thousandths).
scoring_breakdown(td) ==
    LET rankPart == IF Truthy(td.apewisdom_rank)
                    THEN [k \in {"apewisdom_rank"} |-> rank_score(td) * Milli]
                    ELSE [k \in {} |-> 0]
    IN  rankPart @@ [k \in {"reddit_velocity", "fundamental_health", "mention_volume"} |->
                        CASE k = "reddit_velocity" -> velocity_score(td)
                          [] k = "fundamental_health" -> health_contribution(td)
                          [] k = "mention_volume" -> mention_score(td) * Milli]

\* Returns the pair (confidence_score in hundredths, breakdown).
calculate_confidence_score(td) ==
    LET s0 == 0
        s1 == IF Truthy(td.apewisdom_rank) THEN s0 + rank_score(td) * Milli ELSE s0
        s2 == s1 + velocity_score(td)
        s3 == s2 + health_contribution(td)
        s4 == s3 + mention_score(td) * Milli
    IN  [score |-> Round2(s4), breakdown |-> scoring_breakdown(td)]

\* ---------------------------------------------------------------------
\* evaluate_ticker
\* ---------------------------------------------------------------------

\* Variant of RankGateFails that forgets the absent rank.
RankGateFails_no_null_check(td) ==
    IF td.apewisdom_rank = None THEN FALSE
    ELSE td.apewisdom_rank[1] > APEWISDOM_TOP_N

\* Rule 1: must be in the top N on ApeWisdom.
RankGateFails(td) ==
    ~Truthy(td.apewisdom_rank) \/ td.apewisdom_rank[1] > APEWISDOM_TOP_N

\* Variant of VelocityGateFails that also rejects a velocity equal to the threshold.
VelocityGateFails_strict(td) == td.reddit_velocity_pct <= REDDIT_VELOCITY_THRESHOLD

\* Rule 2: Reddit mention velocity must reach the threshold.
VelocityGateFails(td) == td.reddit_velocity_pct < REDDIT_VELOCITY_THRESHOLD

\* Rule 3: must pass the fundamental health check.
HealthGateFails(td) == td.health_score < MIN_HEALTH_SCORE

\* Variant of ConfidenceGateFails that lets every confidence pass.
ConfidenceGateFails_never(confidence_score) == FALSE

\* Final rule: the confidence must be high enough.
ConfidenceGateFails(confidence_score) == confidence_score < MIN_CONFIDENCE_SCORE

\* Variant of flag_data that stores the confidence as whole points.
flag_data_whole_points(td, cs) ==
    [ticker_id |-> td.ticker_id,
     flag_type |-> "BUY",
     confidence_score |-> cs.score \div Scale,
     status |-> "OPEN",
     metadata |-> [apewisdom_rank |-> td.apewisdom_rank,
                   apewisdom_mentions |-> td.apewisdom_mentions,
                   reddit_mentions_24h |-> td.reddit_mentions_24h,
                   reddit_velocity_pct |-> td.reddit_velocity_pct,
                   health_score |-> td.health_score,
                   scoring_breakdown |-> cs.breakdown]]

\* The candidate flag built from a signal that passed every gate.
flag_data(td, cs) ==
    [ticker_id |-> td.ticker_id,
     flag_type |-> "BUY",
     confidence_score |-> cs.score,
     status |-> "OPEN",
     metadata |-> [apewisdom_rank |-> td.apewisdom_rank,
                   apewisdom_mentions |-> td.apewisdom_mentions,
                   reddit_mentions_24h |-> td.reddit_mentions_24h,
                   reddit_velocity_pct |-> td.reddit_velocity_pct,
                   health_score |-> td.health_score,
                   scoring_breakdown |-> cs.breakdown]]

\* Optional[Dict]: None on the first failing gate, else the candidate flag.
evaluate_ticker(td) ==
    IF RankGateFails(td) THEN None
    ELSE IF VelocityGateFails(td) THEN None
    ELSE IF HealthGateFails(td) THEN None
    ELSE LET cs == calculate_confidence_score(td)
         IN  IF ConfidenceGateFails(cs.score) THEN None
             ELSE Some(flag_data(td, cs))

\* ---------------------------------------------------------------------
\* State
\* ---------------------------------------------------------------------
VARIABLES
    \* scoring and gating of one ticker signal
    sig,            \* the ticker_data dict handed to the engine's pure methods
    scored,         \* None, or the pair returned by calculate_confidence_score(sig)
    prev,           \* None, or the input and result of the call before the last one
    gate,           \* position inside evaluate_ticker(sig)
    examined,       \* the rules evaluate_ticker has examined so far, in order
    confidence,     \* None until evaluate_ticker has computed the confidence score
    result,         \* the value evaluate_ticker returned (None or a flag)
    \* the store and the executions of run / create_trading_flags
    trading_flags,  \* the trading_flags table: rows in insertion order
    pc,             \* per execution: position inside run / create_trading_flags
    kind,           \* per execution: "run" or "create" (direct call), "none" before
    ticker_data,    \* per execution: the dict get_recent_data returned, in order
    flags,          \* per execution: the flags argument of create_trading_flags
    i,              \* per execution: index of the candidate being processed
    created_count,  \* per execution: the created counter
    ret,            \* per execution: None, or the value create_trading_flags returned
    before,         \* per execution: the table as it was when the call began
    outcome,        \* per execution: what happened to each candidate processed so far
    calls,          \* number of executions started
    store_read,     \* per execution: the rows the store held when run read it
    read_error,     \* per execution: None, or the ticker id whose read raised
    \* validation of one ticker and the engine's reading of its snapshot
    info,           \* the dict the fundamentals source returns for the ticker
    fundamentals,   \* None, or the dict fetch_fundamentals built from info
    health_check,   \* None, or the triple check_health(fundamentals) returned
    fundamental_stats, \* None, or the latest row save_to_supabase inserted
    fund_read,      \* None, or what get_recent_data read and derived for the ticker
    \* one execution of main(): the orchestrator and its pipeline
    environ,        \* the required environment variables that are set and non-empty
    main_pc,        \* position inside main / __init__ / run_pipeline
    components,     \* the components __init__ has built so far, in order
    phases,         \* the phases run_pipeline has started so far, in order
    results,        \* None, or the results dict of run_pipeline
    raised,         \* None, or the phase whose call raised an Exception
    returned,       \* None, or the dict run_pipeline returned
    exit_code,      \* None, or the status the process exited with
    \* one call of fetch_fundamentals
    max_retries,    \* the max_retries argument
    attempt,        \* the loop variable of the retry loop
    fetch_log,      \* how each attempt made so far ended, in order
    waited,         \* seconds slept before retries
    fetch_pc,       \* "try" at the head of an attempt, "returned" after the call
    \* Discovery runs and the engine's reading of the Reddit table
    now,            \* the clock, in hours
    runs,           \* number of Discovery runs so far
    tickers,        \* the symbols of the tickers table
    sentiment_logs, \* the sentiment_logs table: rows in insertion order
    reddit_mention_velocity, \* the reddit_mention_velocity table, in insertion order
    last_discovery, \* None, or what the latest Discovery run scraped, tracked and used
    velocity_read   \* None, or what get_recent_data read from the Reddit table

scoreVars == <<sig, scored, prev, gate, examined, confidence, result>>

engineVars == <<trading_flags, pc, kind, ticker_data, flags, i, created_count, ret,
                before, outcome, calls, store_read, read_error>>

healthVars == <<info, fundamentals, health_check, fundamental_stats, fund_read>>

pipelineVars == <<environ, main_pc, components, phases, results, raised, returned, exit_code>>

fetchVars == <<max_retries, attempt, fetch_log, waited, fetch_pc>>

discoveryVars == <<now, runs, tickers, sentiment_logs, reddit_mention_velocity,
                   last_discovery, velocity_read>>

vars == <<sig, scored, prev, gate, examined, confidence, result,
          trading_flags, pc, kind, ticker_data, flags, i, created_count, ret,
          before, outcome, calls, store_read, read_error,
          info, fundamentals, health_check, fundamental_stats, fund_read,
          environ, main_pc, components, phases, results, raised, returned, exit_code,
          max_retries, attempt, fetch_log, waited, fetch_pc,
          now, runs, tickers, sentiment_logs, reddit_mention_velocity,
          last_discovery, velocity_read>>

\* ---------------------------------------------------------------------
\* Input domains
\* ---------------------------------------------------------------------

\* 1-based trending ranks around every step of the rank factor and the gate.
RankSamples == {None} \cup {Some(r) : r \in {1, 3, 5, 6, 10, 11, 15, 20, 21, 100}}

\* Velocities in hundredths of a percent (multiples of 0.25 percent).
VelocitySamples == {-10000, -4000, -25, 0, 1000, 1900, 1975, 2000, 5000, 9900,
                    10000, 15000, 20000}

HealthSamples == {0, 50, 59, 60, 80, 90, 100}

ApeMentionSamples == {0, 400, 1000}

RedditMentionSamples == {0, 200}

Signal(t, r, ape, red, v, h) ==
    [ticker_id |-> t,
     apewisdom_rank |-> r,
     apewisdom_mentions |-> ape,
     reddit_mentions_24h |-> red,
     reddit_velocity_pct |-> v,
     health_score |-> h]

Signals ==
    {Signal(1, r, ape, red, v, h) :
        r \in RankSamples, ape \in ApeMentionSamples, red \in RedditMentionSamples,
        v \in VelocitySamples, h \in HealthSamples}

Procs == {"first", "second"}

EngineIdle ==
    /\ trading_flags = <<>>
    /\ pc = [p \in Procs |-> "idle"]
    /\ kind = [p \in Procs |-> "none"]
    /\ ticker_data = [p \in Procs |-> <<>>]
    /\ flags = [p \in Procs |-> <<>>]
    /\ i = [p \in Procs |-> 0]
    /\ created_count = [p \in Procs |-> 0]
    /\ ret = [p \in Procs |-> None]
    /\ before = [p \in Procs |-> <<>>]
    /\ outcome = [p \in Procs |-> <<>>]
    /\ calls = 0
    /\ store_read = [p \in Procs |-> <<>>]
    /\ read_error = [p \in Procs |-> None]

ScoreIdle ==
    /\ scored = None
    /\ prev = None
    /\ gate = "ready"
    /\ examined = <<>>
    /\ confidence = None
    /\ result = None

\* The source's answer for a ticker it knows nothing about: every field absent.
EmptyInfo ==
    [marketCap |-> None, debtToEquity |-> None, profitMargins |-> None,
     revenueGrowth |-> None, currentPrice |-> None, longName |-> None]

\* Nothing fetched, checked, saved or read yet.
HealthIdle ==
    /\ fundamentals = None
    /\ health_check = None
    /\ fundamental_stats = None
    /\ fund_read = None

required_vars ==
    <<"SUPABASE_URL", "SUPABASE_KEY", "REDDIT_CLIENT_ID", "REDDIT_CLIENT_SECRET",
      "REDDIT_USER_AGENT">>

\* main() has not started; every required variable is set.
PipelineIdle ==
    /\ environ = {required_vars[k] : k \in 1..Len(required_vars)}
    /\ main_pc = "start"
    /\ components = <<>>
    /\ phases = <<>>
    /\ results = None
    /\ raised = None
    /\ returned = None
    /\ exit_code = None

\* fetch_fundamentals has not been called; max_retries has its default.
FetchIdle ==
    /\ max_retries = 2
    /\ attempt = 0
    /\ fetch_log = <<>>
    /\ waited = 0
    /\ fetch_pc = "idle"

\* An empty store at hour 0, before any Discovery run.
DiscoveryIdle ==
    /\ now = 0
    /\ runs = 0
    /\ tickers = {}
    /\ sentiment_logs = <<>>
    /\ reddit_mention_velocity = <<>>
    /\ last_discovery = None
    /\ velocity_read = None

\* ---------------------------------------------------------------------
\* The pure methods applied to one signal
\* ---------------------------------------------------------------------

\* A direct call calculate_confidence_score(sig).
CalculateConfidence ==
    /\ gate = "ready"
    /\ scored = None
    /\ scored' = Some(calculate_confidence_score(sig))
    /\ UNCHANGED <<sig, prev, gate, examined, confidence, result>>
    /\ UNCHANGED <<engineVars, healthVars, pipelineVars, fetchVars, discoveryVars>>

\* A second call, on a signal td that differs from sig in one input only;
\* the first call's input and result are kept for comparison.
Rescore(td) ==
    /\ gate = "ready"
    /\ scored # None
    /\ prev = None
    /\ prev' = Some([td |-> sig, score |-> scored[1].score])
    /\ sig' = td
    /\ scored' = Some(calculate_confidence_score(td))
    /\ UNCHANGED <<gate, examined, confidence, result>>
    /\ UNCHANGED <<engineVars, healthVars, pipelineVars, fetchVars, discoveryVars>>

\* A smaller rank number, or a rank where there was none.
BetterRank ==
    \E r \in RankSamples \ {None} :
        /\ IF sig.apewisdom_rank = None THEN TRUE ELSE r[1] < sig.apewisdom_rank[1]
        /\ Rescore([sig EXCEPT !.apewisdom_rank = r])

HigherVelocity ==
    \E v \in VelocitySamples :
        /\ v > sig.reddit_velocity_pct
        /\ Rescore([sig EXCEPT !.reddit_velocity_pct = v])

HigherHealth ==
    \E h \in HealthSamples :
        /\ h > sig.health_score
        /\ Rescore([sig EXCEPT !.health_score = h])

MoreApeMentions ==
    \E m \in ApeMentionSamples :
        /\ m > sig.apewisdom_mentions
        /\ Rescore([sig EXCEPT !.apewisdom_mentions = m])

MoreRedditMentions ==
    \E m \in RedditMentionSamples :
        /\ m > sig.reddit_mentions_24h
        /\ Rescore([sig EXCEPT !.reddit_mentions_24h = m])

\* evaluate_ticker(sig), one rule per step (on the signal first drawn).
StartEvaluate ==
    /\ gate = "ready"
    /\ prev = None
    /\ gate' = "RankGate"
    /\ UNCHANGED <<sig, scored, prev, examined, confidence, result>>
    /\ UNCHANGED <<engineVars, healthVars, pipelineVars, fetchVars, discoveryVars>>

RankGate ==
    /\ gate = "RankGate"
    /\ examined' = Append(examined, "RankGate")
    /\ gate' = IF RankGateFails(sig) THEN "Rejected" ELSE "VelocityGate"
    /\ UNCHANGED <<sig, scored, prev, confidence, result>>
    /\ UNCHANGED <<engineVars, healthVars, pipelineVars, fetchVars, discoveryVars>>

VelocityGate ==
    /\ gate = "VelocityGate"
    /\ examined' = Append(examined, "VelocityGate")
    /\ gate' = IF VelocityGateFails(sig) THEN "Rejected" ELSE "HealthGate"
    /\ UNCHANGED <<sig, scored, prev, confidence, result>>
    /\ UNCHANGED <<engineVars, healthVars, pipelineVars, fetchVars, discoveryVars>>

HealthGate ==
    /\ gate = "HealthGate"
    /\ examined' = Append(examined, "HealthGate")
    /\ gate' = IF HealthGateFails(sig) THEN "Rejected" ELSE "ConfidenceGate"
    /\ UNCHANGED <<sig, scored, prev, confidence, result>>
    /\ UNCHANGED <<engineVars, healthVars, pipelineVars, fetchVars, discoveryVars>>

ConfidenceGate ==
    /\ gate = "ConfidenceGate"
    /\ LET cs == calculate_confidence_score(sig)
       IN  /\ confidence' = Some(cs.score)
           /\ examined' = Append(examined, "ConfidenceGate")
           /\ IF ConfidenceGateFails(cs.score)
              THEN gate' = "Rejected" /\ result' = None
              ELSE gate' = "Candidate" /\ result' = Some(flag_data(sig, cs))
    /\ UNCHANGED <<sig, scored, prev>>
    /\ UNCHANGED <<engineVars, healthVars, pipelineVars, fetchVars, discoveryVars>>

InitScore ==
    /\ sig \in Signals
    /\ ScoreIdle
    /\ EngineIdle
    /\ info = EmptyInfo
    /\ HealthIdle
    /\ PipelineIdle
    /\ FetchIdle
    /\ DiscoveryIdle

NextScore ==
    \/ CalculateConfidence
    \/ BetterRank
    \/ HigherVelocity
    \/ HigherHealth
    \/ MoreApeMentions
    \/ MoreRedditMentions
    \/ StartEvaluate
    \/ RankGate
    \/ VelocityGate
    \/ HealthGate
    \/ ConfidenceGate

SpecScore == InitScore /\ [][NextScore]_vars

\* ---------------------------------------------------------------------
\* The store and the engine run
\* ---------------------------------------------------------------------
MaxTickers == 2

MaxBatch == 2

MaxCalls == 2

\* The ids of the tickers table.
TickerIds == 1..MaxTickers

\* What the store can hold for ticker t when a run reads it: scenario A
\* (accepted with confidence 95), a signal that passes the first three rules
\* with confidence 62.5 (health 70), a signal without rank but with mentions, and a ticker
\* without recent data.
StoredSignal(t, profile) ==
    CASE profile = "scenario_A" -> Signal(t, Some(3), 1000, 200, 15000, 80)
      [] profile = "low_confidence" -> Signal(t, Some(20), 0, 0, 2000, 70)
      [] profile = "no_rank" -> Signal(t, None, 0, 200, 15000, 100)
      [] profile = "no_recent_data" -> Signal(t, None, 0, 0, 0, 0)

Profiles == {"scenario_A", "low_confidence", "no_rank", "no_recent_data"}

\* One row of aggregated data per ticker, in the order of the tickers table.
StoreContents ==
    {[t \in TickerIds |-> StoredSignal(t, choice[t])] : choice \in [TickerIds -> Profiles]}

\* Variant of get_recent_data that returns every ticker of the tickers table.
get_recent_data_unfiltered(rows) == rows

\* get_recent_data: the aggregated rows, minus the tickers with no recent data.
get_recent_data(rows) ==
    SelectSeq(rows, LAMBDA data : data.apewisdom_rank # None \/ data.reddit_mentions_24h > 0)

\* Variant of flags_to_create that makes a flag of every ticker read.
flags_to_create_all(tds) ==
    [k \in 1..Len(tds) |-> flag_data(tds[k], calculate_confidence_score(tds[k]))]

\* Step 2 of run: the flags of the tickers evaluate_ticker accepts, in order.
flags_to_create(tds) ==
    LET accepted == SelectSeq(tds, LAMBDA data : evaluate_ticker(data) # None)
    IN  [k \in 1..Len(accepted) |-> evaluate_ticker(accepted[k])[1]]

\* A candidate flag for ticker t, as a caller of create_trading_flags may pass it.
Candidate(t) ==
    LET td == Signal(t, Some(3), 1000, 200, 15000, 80)
    IN  flag_data(td, calculate_confidence_score(td))

Candidates == {Candidate(t) : t \in TickerIds}

\* Every batch of at most MaxBatch candidates, repeated tickers included.
Batches == UNION {[1..n -> Candidates] : n \in 0..MaxBatch}

\* Variant of existing_open that finds the flags of the ticker whatever their status.
existing_open_any_status(table, ticker_id) ==
    SelectSeq(table, LAMBDA row : row.ticker_id = ticker_id)

\* Variant of existing_open that looks for closed flags.
existing_open_wrong_status(table, ticker_id) ==
    SelectSeq(table, LAMBDA row : row.ticker_id = ticker_id /\ row.status = "CLOSED")

\* Variant of existing_open that only looks at the first row of the table.
existing_open_first_row(table, ticker_id) ==
    SelectSeq(IF table = <<>> THEN <<>> ELSE <<table[1]>>,
              LAMBDA row : row.ticker_id = ticker_id /\ row.status = "OPEN")

\* select('id').eq('ticker_id', ...).eq('status', 'OPEN')
existing_open(table, ticker_id) ==
    SelectSeq(table, LAMBDA row : row.ticker_id = ticker_id /\ row.status = "OPEN")

\* Variant of insert_row that keeps the table as it is when the ticker already
\* has an open flag.
insert_row_unless_open(table, flag) ==
    IF existing_open(table, flag.ticker_id) # <<>> THEN table ELSE Append(table, flag)

\* table('trading_flags').insert(flag)
insert_row(table, flag) == Append(table, flag)

\* Variant of after_candidate that leaves the loop.
after_candidate_abort(k, n) == n + 1

\* The for loop moves on to the next candidate, also from the except branch.
after_candidate(k, n) == k + 1

\* The end of one loop iteration of execution p, with the counter at count.
Advance(p, count, what) ==
    LET n == Len(flags[p])
        k == after_candidate(i[p], n)
    IN  /\ outcome' = [outcome EXCEPT ![p] = Append(@, what)]
        /\ created_count' = [created_count EXCEPT ![p] = count]
        /\ i' = [i EXCEPT ![p] = k]
        /\ IF k > n
           THEN /\ pc' = [pc EXCEPT ![p] = "returned"]
                /\ ret' = [ret EXCEPT ![p] = Some(count)]
           ELSE /\ pc' = [pc EXCEPT ![p] = "check"]
                /\ UNCHANGED ret

\* Entry of create_trading_flags(fl) in execution p.
EnterCreate(p, fl) ==
    /\ flags' = [flags EXCEPT ![p] = fl]
    /\ before' = [before EXCEPT ![p] = trading_flags]
    /\ outcome' = [outcome EXCEPT ![p] = <<>>]
    /\ created_count' = [created_count EXCEPT ![p] = 0]
    /\ IF fl = <<>>
       THEN /\ pc' = [pc EXCEPT ![p] = "returned"]
            /\ ret' = [ret EXCEPT ![p] = Some(0)]
            /\ i' = [i EXCEPT ![p] = 0]
       ELSE /\ pc' = [pc EXCEPT ![p] = "check"]
            /\ ret' = [ret EXCEPT ![p] = None]
            /\ i' = [i EXCEPT ![p] = 1]

\* run(): get_recent_data, evaluate_ticker on every ticker, then the call of
\* create_trading_flags (not made when no ticker has recent data).
Run(p) ==
    /\ pc[p] \in {"idle", "returned"}
    /\ calls < MaxCalls
    /\ calls' = calls + 1
    /\ kind' = [kind EXCEPT ![p] = "run"]
    /\ \E rows \in StoreContents :
          LET tds == get_recent_data(rows)
          IN  /\ store_read' = [store_read EXCEPT ![p] = rows]
              /\ ticker_data' = [ticker_data EXCEPT ![p] = tds]
              /\ EnterCreate(p, IF tds = <<>> THEN <<>> ELSE flags_to_create(tds))
    /\ read_error' = [read_error EXCEPT ![p] = None]
    /\ UNCHANGED trading_flags
    /\ UNCHANGED <<scoreVars, healthVars, pipelineVars, fetchVars, discoveryVars>>

\* The stores in which every ticker has the same profile: what the store
\* holds when a read raises does not change what run does.
UniformStores == {[t \in TickerIds |-> StoredSignal(t, profile)] : profile \in Profiles}

\* run() when a store read raises while get_recent_data collects the data of
\* ticker t: the handler around the whole loop returns {}, and run returns
\* without evaluating any ticker or calling create_trading_flags.
RunReadFails(p) ==
    /\ pc[p] \in {"idle", "returned"}
    /\ calls < MaxCalls
    /\ calls' = calls + 1
    /\ kind' = [kind EXCEPT ![p] = "run"]
    /\ \E rows \in UniformStores, t \in TickerIds :
          /\ store_read' = [store_read EXCEPT ![p] = rows]
          /\ read_error' = [read_error EXCEPT ![p] = Some(t)]
    /\ ticker_data' = [ticker_data EXCEPT ![p] = <<>>]
    /\ EnterCreate(p, <<>>)
    /\ UNCHANGED trading_flags
    /\ UNCHANGED <<scoreVars, healthVars, pipelineVars, fetchVars, discoveryVars>>

\* A direct call create_trading_flags(batch).
CallCreate(p) ==
    /\ pc[p] \in {"idle", "returned"}
    /\ calls < MaxCalls
    /\ calls' = calls + 1
    /\ kind' = [kind EXCEPT ![p] = "create"]
    /\ ticker_data' = [ticker_data EXCEPT ![p] = <<>>]
    /\ store_read' = [store_read EXCEPT ![p] = <<>>]
    /\ read_error' = [read_error EXCEPT ![p] = None]
    /\ \E batch \in Batches : EnterCreate(p, batch)
    /\ UNCHANGED trading_flags
    /\ UNCHANGED <<scoreVars, healthVars, pipelineVars, fetchVars, discoveryVars>>

\* The existence query answers: skip the candidate or go on to the insert.
CheckExisting(p) ==
    /\ pc[p] = "check"
    /\ LET flag == flags[p][i[p]]
           existing == existing_open(trading_flags, flag.ticker_id)
       IN  IF existing # <<>>
           THEN Advance(p, created_count[p], "skipped")
           ELSE /\ pc' = [pc EXCEPT ![p] = "insert"]
                /\ UNCHANGED <<i, created_count, ret, outcome>>
    /\ UNCHANGED <<trading_flags, kind, ticker_data, flags, before, calls, store_read, read_error>>
    /\ UNCHANGED <<scoreVars, healthVars, pipelineVars, fetchVars, discoveryVars>>

\* The existence query raises: logged, the loop goes on.
CheckFails(p) ==
    /\ pc[p] = "check"
    /\ Advance(p, created_count[p], "query_error")
    /\ UNCHANGED <<trading_flags, kind, ticker_data, flags, before, calls, store_read, read_error>>
    /\ UNCHANGED <<scoreVars, healthVars, pipelineVars, fetchVars, discoveryVars>>

\* The insert succeeds.
Insert(p) ==
    /\ pc[p] = "insert"
    /\ trading_flags' = insert_row(trading_flags, flags[p][i[p]])
    /\ Advance(p, created_count[p] + 1, "created")
    /\ UNCHANGED <<kind, ticker_data, flags, before, calls, store_read, read_error>>
    /\ UNCHANGED <<scoreVars, healthVars, pipelineVars, fetchVars, discoveryVars>>

\* The insert raises and stores nothing: logged, the loop goes on.
InsertFails(p) ==
    /\ pc[p] = "insert"
    /\ Advance(p, created_count[p], "insert_error")
    /\ UNCHANGED <<trading_flags, kind, ticker_data, flags, before, calls, store_read, read_error>>
    /\ UNCHANGED <<scoreVars, healthVars, pipelineVars, fetchVars, discoveryVars>>

\* Step 3 of a run whose only accepted ticker is sig: create_trading_flags
\* looks for an OPEN flag of the ticker and inserts the candidate.
CreateFlag ==
    /\ gate = "Candidate"
    /\ existing_open(trading_flags, result[1].ticker_id) = <<>>
    /\ trading_flags' = insert_row(trading_flags, result[1])
    /\ UNCHANGED <<pc, kind, ticker_data, flags, i, created_count, ret, before,
                   outcome, calls, store_read, read_error>>
    /\ UNCHANGED <<scoreVars, healthVars, pipelineVars, fetchVars, discoveryVars>>

\* The pure methods, and the insert of the flag of an accepted signal.
NextAdmit ==
    \/ NextScore
    \/ CreateFlag

SpecAdmit == InitScore /\ [][NextAdmit]_vars

\* The external process closes an OPEN flag while no engine call is under way.
CloseFlag ==
    /\ \A p \in Procs : pc[p] \in {"idle", "returned"}
    /\ \E k \in 1..Len(trading_flags) :
          /\ trading_flags[k].status = "OPEN"
          /\ trading_flags' = [trading_flags EXCEPT ![k].status = "CLOSED"]
    /\ UNCHANGED <<pc, kind, ticker_data, flags, i, created_count, ret, before,
                   outcome, calls, store_read, read_error>>
    /\ UNCHANGED <<scoreVars, healthVars, pipelineVars, fetchVars, discoveryVars>>

\* A fixed signal for the specifications that do not exercise the pure methods.
InitEngine ==
    /\ sig = Signal(1, None, 0, 0, 0, 0)
    /\ ScoreIdle
    /\ EngineIdle
    /\ info = EmptyInfo
    /\ HealthIdle
    /\ PipelineIdle
    /\ FetchIdle
    /\ DiscoveryIdle

\* Sequential executions: one caller, one call after the other.
Init == InitEngine

Next ==
    \/ Run("first")
    \/ RunReadFails("first")
    \/ CallCreate("first")
    \/ CheckExisting("first")
    \/ CheckFails("first")
    \/ Insert("first")
    \/ InsertFails("first")

Spec == Init /\ [][Next]_vars

\* Sequential runs whose store operations succeed, with flags being closed
\* by the external process between them.
NextClosure ==
    \/ Run("first")
    \/ CheckExisting("first")
    \/ Insert("first")
    \/ CloseFlag

SpecClosure == Init /\ [][NextClosure]_vars

\* Two executions that may overlap, each making one direct call of
\* create_trading_flags against a store whose operations succeed.
CallCreateOnce(p) ==
    /\ pc[p] = "idle"
    /\ CallCreate(p)

NextConc ==
    \E p \in Procs :
        \/ CallCreateOnce(p)
        \/ CheckExisting(p)
        \/ Insert(p)

SpecConc == InitEngine /\ [][NextConc]_vars

\* ---------------------------------------------------------------------
\* Validation: fetch_fundamentals, check_health, save_to_supabase, and the
\* health score the engine derives from the saved row
\* ---------------------------------------------------------------------
\* Units: market cap in dollars, debt-to-equity and revenue growth in
\* hundredths (Scale), profit margin in thousandths (Milli), health scores
\* in whole points.
MIN_MARKET_CAP == 500000000

MAX_DEBT_TO_EQUITY == 2 * Scale

\* -0.50, compared with a margin that fetch_fundamentals holds in percent.
MIN_PROFIT_MARGIN == -(Milli \div 2)

\* The engine's own margin threshold, -50.
ENGINE_MIN_PROFIT_MARGIN == -50 * Milli

\* Python truthiness of an Optional[str]: None and "" are falsy.
TruthyText(opt) == opt # None /\ opt[1] # ""

\* profit_margin *= 100 when it is truthy and strictly between -1 and 1.
convert_profit_margin(profit_margin) ==
    IF Truthy(profit_margin) /\ profit_margin[1] < Milli /\ profit_margin[1] > -Milli
    THEN Some(profit_margin[1] * 100)
    ELSE profit_margin

\* revenue_growth *= 100 when it is truthy and below 1.
convert_revenue_growth(revenue_growth) ==
    IF Truthy(revenue_growth) /\ revenue_growth[1] < Scale
    THEN Some(revenue_growth[1] * 100)
    ELSE revenue_growth

\* The dict fetch_fundamentals builds from the source's answer.
fetch_fundamentals(raw) ==
    [market_cap |-> raw.marketCap,
     debt_to_equity |-> raw.debtToEquity,
     revenue_growth |-> convert_revenue_growth(raw.revenueGrowth),
     profit_margin |-> convert_profit_margin(raw.profitMargins),
     current_price |-> raw.currentPrice,
     company_name |-> raw.longName,
     raw_data |-> raw]

critical_fields == <<"market_cap", "current_price", "company_name">>

\* not fundamentals.get(f)
FieldMissing(fund, f) ==
    IF f = "company_name" THEN ~TruthyText(fund[f]) ELSE ~Truthy(fund[f])

\* Variant of missing_fields that does not count the market cap.
missing_fields_without_market_cap(fund) ==
    SelectSeq(critical_fields, LAMBDA f : f # "market_cap" /\ FieldMissing(fund, f))

missing_fields(fund) ==
    SelectSeq(critical_fields, LAMBDA f : FieldMissing(fund, f))

\* Variant of missing_deduction that deducts 15 once, however many are missing.
missing_deduction_flat(missing) == IF missing # <<>> THEN 15 ELSE 0

\* health_score -= 15 * len(missing_fields)
missing_deduction(missing) == 15 * Len(missing)

\* Variant of clamp_health without the upper bound.
clamp_health_no_ceiling(x) == IF x < 0 THEN 0 ELSE x

\* max(0, min(100, health_score))
clamp_health(x) == IF x < 0 THEN 0 ELSE IF x > 100 THEN 100 ELSE x

\* Variant of healthy_verdict that tolerates two reasons.
healthy_verdict_two_reasons(health_score, reasons) ==
    health_score >= 60 /\ Len(reasons) <= 2

\* Variant of healthy_verdict that looks at the score only.
healthy_verdict_score_only(health_score, reasons) == health_score >= 60

\* is_healthy = health_score >= 60 and len(reasons) <= 1
healthy_verdict(health_score, reasons) == health_score >= 60 /\ Len(reasons) <= 1

\* The reasons list, in the order check_health appends to it.
health_reasons(fund) ==
    LET market_cap == fund.market_cap
        debt_to_equity == fund.debt_to_equity
        profit_margin == fund.profit_margin
    IN  (IF market_cap = None THEN <<"Missing market cap data">>
         ELSE IF market_cap[1] < MIN_MARKET_CAP THEN <<"Market cap below minimum">>
         ELSE <<>>)
        \o (IF debt_to_equity # None /\ debt_to_equity[1] > MAX_DEBT_TO_EQUITY
            THEN <<"Debt-to-equity exceeds maximum">> ELSE <<>>)
        \o (IF profit_margin # None /\ profit_margin[1] < MIN_PROFIT_MARGIN
            THEN <<"Profit margin below minimum">> ELSE <<>>)
        \o (IF missing_fields(fund) # <<>>
            THEN <<"Missing critical data">> ELSE <<>>)

\* The score before clamping: 100, the deductions, the growth bonus.
raw_health_score(fund) ==
    LET market_cap == fund.market_cap
        debt_to_equity == fund.debt_to_equity
        profit_margin == fund.profit_margin
        revenue_growth == fund.revenue_growth
    IN  100
        - (IF market_cap = None THEN 30
           ELSE IF market_cap[1] < MIN_MARKET_CAP THEN 30 ELSE 0)
        - (IF debt_to_equity # None /\ debt_to_equity[1] > MAX_DEBT_TO_EQUITY
           THEN 20 ELSE 0)
        - (IF profit_margin # None /\ profit_margin[1] < MIN_PROFIT_MARGIN
           THEN 25 ELSE 0)
        - missing_deduction(missing_fields(fund))
        + (IF Truthy(revenue_growth) /\ revenue_growth[1] > 20 * Scale
           THEN 10 ELSE 0)

\* check_health(fundamentals): the triple (is_healthy, reasons, health_score).
check_health(fund) ==
    LET reasons == health_reasons(fund)
        health_score == clamp_health(raw_health_score(fund))
    IN  [is_healthy |-> healthy_verdict(health_score, reasons),
         reasons |-> reasons,
         health_score |-> health_score]

\* The columns of the fundamental_stats row save_to_supabase inserts.
stats_row(fund) ==
    [market_cap |-> fund.market_cap,
     debt_to_equity |-> fund.debt_to_equity,
     revenue_growth |-> fund.revenue_growth,
     profit_margin |-> fund.profit_margin,
     raw_data |-> fund.raw_data]

\* Variant of engine_health_score that deducts 50 for the market cap.
engine_health_score_heavy_cap(latest) ==
    IF latest = None THEN 0
    ELSE LET fund_data == latest[1]
             debt_to_equity == fund_data.debt_to_equity
             profit_margin == fund_data.profit_margin
             health_score ==
                 100
                 - (IF ~Truthy(fund_data.market_cap) THEN 50
                    ELSE IF fund_data.market_cap[1] < 500000000 THEN 50 ELSE 0)
                 - (IF Truthy(debt_to_equity) /\ debt_to_equity[1] > 2 * Scale
                    THEN 20 ELSE 0)
                 - (IF Truthy(profit_margin) /\ profit_margin[1] < ENGINE_MIN_PROFIT_MARGIN
                    THEN 25 ELSE 0)
         IN  IF health_score < 0 THEN 0 ELSE health_score

\* Variant of engine_health_score without the debt check.
engine_health_score_no_debt(latest) ==
    IF latest = None THEN 0
    ELSE LET fund_data == latest[1]
             profit_margin == fund_data.profit_margin
             health_score ==
                 100
                 - (IF ~Truthy(fund_data.market_cap) THEN 30
                    ELSE IF fund_data.market_cap[1] < 500000000 THEN 30 ELSE 0)
                 - (IF Truthy(profit_margin) /\ profit_margin[1] < ENGINE_MIN_PROFIT_MARGIN
                    THEN 25 ELSE 0)
         IN  IF health_score < 0 THEN 0 ELSE health_score

\* The health_score get_recent_data puts into ticker_data[symbol]: 0 without
\* a fundamental_stats row, else recomputed from the latest row.
engine_health_score(latest) ==
    IF latest = None THEN 0
    ELSE LET fund_data == latest[1]
             debt_to_equity == fund_data.debt_to_equity
             profit_margin == fund_data.profit_margin
             health_score ==
                 100
                 - (IF ~Truthy(fund_data.market_cap) THEN 30
                    ELSE IF fund_data.market_cap[1] < 500000000 THEN 30 ELSE 0)
                 - (IF Truthy(debt_to_equity) /\ debt_to_equity[1] > 2 * Scale
                    THEN 20 ELSE 0)
                 - (IF Truthy(profit_margin) /\ profit_margin[1] < ENGINE_MIN_PROFIT_MARGIN
                    THEN 25 ELSE 0)
         IN  IF health_score < 0 THEN 0 ELSE health_score

\* What the fundamentals source can answer.
MarketCapSamples == {None, Some(0), Some(499999999), Some(500000000), Some(1000000000)}

DebtToEquitySamples == {None, Some(100), Some(200), Some(225)}

\* Fractions -0.6, -0.5, -0.1, -0.005, -0.004, 0 and 0.05, and 5 and -1.5, which
\* are outside (-1, 1) and stay as they are.
ProfitMarginSamples ==
    {None, Some(-600), Some(-500), Some(-100), Some(-5), Some(-4), Some(0),
     Some(50), Some(5000), Some(-1500)}

\* Fractions 0.12 and 0.25, and 20 and 25, which are not below 1.
RevenueGrowthSamples == {None, Some(0), Some(12), Some(25), Some(2000), Some(2500)}

CurrentPriceSamples == {None, Some(0), Some(1000)}

CompanyNameSamples == {None, Some(""), Some("Acme Corp")}

Infos ==
    [marketCap : MarketCapSamples, debtToEquity : DebtToEquitySamples,
     profitMargins : ProfitMarginSamples, revenueGrowth : RevenueGrowthSamples,
     currentPrice : CurrentPriceSamples, longName : CompanyNameSamples]

\* validate_tickers: fundamentals = self.fetch_fundamentals(symbol)
FetchFundamentals ==
    /\ fundamentals = None
    /\ fundamentals' = Some(fetch_fundamentals(info))
    /\ UNCHANGED <<info, health_check, fundamental_stats, fund_read>>
    /\ UNCHANGED <<scoreVars, engineVars, pipelineVars, fetchVars, discoveryVars>>

\* validate_tickers: is_healthy, reasons, health_score = self.check_health(...)
CheckHealth ==
    /\ fundamentals # None
    /\ health_check = None
    /\ health_check' = Some(check_health(fundamentals[1]))
    /\ UNCHANGED <<info, fundamentals, fundamental_stats, fund_read>>
    /\ UNCHANGED <<scoreVars, engineVars, pipelineVars, fetchVars, discoveryVars>>

\* validate_tickers: self.save_to_supabase(fundamentals), after the check.
SaveToSupabase ==
    /\ health_check # None
    /\ fundamental_stats = None
    /\ fundamental_stats' = Some(stats_row(fundamentals[1]))
    /\ UNCHANGED <<info, fundamentals, health_check, fund_read>>
    /\ UNCHANGED <<scoreVars, engineVars, pipelineVars, fetchVars, discoveryVars>>

\* get_recent_data reads the latest fundamental_stats row of the ticker, if
\* there is one, and derives the health score.
ReadFundamentals ==
    /\ fund_read = None
    /\ fund_read' = Some([latest |-> fundamental_stats,
                          health_score |-> engine_health_score(fundamental_stats)])
    /\ UNCHANGED <<info, fundamentals, health_check, fundamental_stats>>
    /\ UNCHANGED <<scoreVars, engineVars, pipelineVars, fetchVars, discoveryVars>>

InitHealth ==
    /\ info \in Infos
    /\ HealthIdle
    /\ PipelineIdle
    /\ FetchIdle
    /\ DiscoveryIdle
    /\ sig = Signal(1, None, 0, 0, 0, 0)
    /\ ScoreIdle
    /\ EngineIdle

NextHealth ==
    \/ FetchFundamentals
    \/ CheckHealth
    \/ SaveToSupabase
    \/ ReadFundamentals

SpecHealth == InitHealth /\ [][NextHealth]_vars

\* ---------------------------------------------------------------------
\* main(): the orchestrator's construction and run_pipeline
\* ---------------------------------------------------------------------
\* Variant of missing_vars that only looks at the store's settings.
missing_vars_store_only(env) ==
    SelectSeq(required_vars,
              LAMBDA var : var \in {"SUPABASE_URL", "SUPABASE_KEY"} /\ var \notin env)

\* [var for var in required_vars if not os.environ.get(var)]
missing_vars(env) == SelectSeq(required_vars, LAMBDA var : var \notin env)

\* The components in the order __init__ builds them.
component_order == <<"discovery", "validator", "engine">>

\* The phases in the order run_pipeline calls them.
phase_order == <<"discovery", "validation", "engine">>

\* The results dict at the start of run_pipeline.
initial_results ==
    [status |-> "running", discovery |-> None, validation |-> None,
     engine |-> None, errors |-> <<>>]

\* Variant of handle_exception that records the error but not the status.
handle_exception_keeps_status(res, e) == [res EXCEPT !.errors = Append(@, e)]

\* except Exception as e: status 'failed', errors.append(str(e))
handle_exception(res, e) ==
    [res EXCEPT !.status = "failed", !.errors = Append(@, e)]

\* What a phase can hand back to run_pipeline: the discovery summary, the
\* validation counts, the engine summary.
PhaseResults(phase) ==
    CASE phase = "discovery" ->
            {[apewisdom_count |-> n, reddit_tracked_count |-> n] : n \in {0, 20}}
      [] phase = "validation" ->
            {[total_validated |-> 0, passed |-> 0, failed |-> 0],
             [total_validated |-> 2, passed |-> 1, failed |-> 1]}
      [] phase = "engine" ->
            {[evaluated |-> n, flagged |-> n, created |-> n] : n \in {0, 1}}

\* str(e) of the exceptions a phase can raise; it can be empty.
ErrorTexts == {"", "store unavailable"}

\* The environment main() starts in, after load_dotenv().
Environments == SUBSET {required_vars[k] : k \in 1..Len(required_vars)}

\* sys.exit(code)
Exit(code) ==
    /\ main_pc' = "exited"
    /\ exit_code' = Some(code)

\* __init__: _verify_environment() raises ValueError when a variable is
\* missing; main() catches it and exits with status 1.
VerifyEnvironment ==
    /\ main_pc = "start"
    /\ IF missing_vars(environ) # <<>>
       THEN Exit(1)
       ELSE /\ main_pc' = "verified"
            /\ UNCHANGED exit_code
    /\ UNCHANGED <<environ, components, phases, results, raised, returned>>
    /\ UNCHANGED <<scoreVars, engineVars, healthVars, fetchVars, discoveryVars>>

\* __init__: the next component is constructed.
BuildComponent ==
    /\ main_pc = "verified"
    /\ components' = Append(components, component_order[Len(components) + 1])
    /\ main_pc' = IF Len(components') = Len(component_order) THEN "constructed"
                  ELSE "verified"
    /\ UNCHANGED <<environ, phases, results, raised, returned, exit_code>>
    /\ UNCHANGED <<scoreVars, engineVars, healthVars, fetchVars, discoveryVars>>

\* __init__: the constructor of the next component raises; main() exits with 1.
BuildComponentFails ==
    /\ main_pc = "verified"
    /\ Exit(1)
    /\ UNCHANGED <<environ, components, phases, results, raised, returned>>
    /\ UNCHANGED <<scoreVars, engineVars, healthVars, fetchVars, discoveryVars>>

\* run_pipeline is entered: the results dict is created.
StartPipeline ==
    /\ main_pc = "constructed"
    /\ results' = Some(initial_results)
    /\ main_pc' = "try"
    /\ UNCHANGED <<environ, components, phases, raised, returned, exit_code>>
    /\ UNCHANGED <<scoreVars, engineVars, healthVars, fetchVars, discoveryVars>>

\* The next phase is called and returns; after the third the status is set.
PhaseReturns ==
    /\ main_pc = "try"
    /\ LET phase == phase_order[Len(phases) + 1]
       IN  /\ phases' = Append(phases, phase)
           /\ \E r \in PhaseResults(phase) :
                LET res == [results[1] EXCEPT ![phase] = Some(r)]
                IN  IF Len(phases') = Len(phase_order)
                    THEN /\ results' = Some([res EXCEPT !.status = "success"])
                         /\ main_pc' = "finally"
                    ELSE /\ results' = Some(res)
                         /\ main_pc' = "try"
    /\ UNCHANGED <<environ, components, raised, returned, exit_code>>
    /\ UNCHANGED <<scoreVars, engineVars, healthVars, fetchVars, discoveryVars>>

\* The next phase is called and raises an Exception: the handler runs.
PhaseRaises ==
    /\ main_pc = "try"
    /\ LET phase == phase_order[Len(phases) + 1]
       IN  /\ phases' = Append(phases, phase)
           /\ raised' = Some(phase)
    /\ \E e \in ErrorTexts : results' = Some(handle_exception(results[1], e))
    /\ main_pc' = "finally"
    /\ UNCHANGED <<environ, components, returned, exit_code>>
    /\ UNCHANGED <<scoreVars, engineVars, healthVars, fetchVars, discoveryVars>>

\* The next phase is interrupted (KeyboardInterrupt is not an Exception): the
\* finally block runs, run_pipeline does not return, main() exits with 130.
PhaseInterrupted ==
    /\ main_pc = "try"
    /\ phases' = Append(phases, phase_order[Len(phases) + 1])
    /\ Exit(130)
    /\ UNCHANGED <<environ, components, results, raised, returned>>
    /\ UNCHANGED <<scoreVars, engineVars, healthVars, fetchVars, discoveryVars>>

\* finally: the summary is printed; then return results.
ReturnResults ==
    /\ main_pc = "finally"
    /\ returned' = results
    /\ main_pc' = "back_in_main"
    /\ UNCHANGED <<environ, components, phases, results, raised, exit_code>>
    /\ UNCHANGED <<scoreVars, engineVars, healthVars, fetchVars, discoveryVars>>

\* main(): sys.exit(0) on success, sys.exit(1) otherwise.
ExitOnStatus ==
    /\ main_pc = "back_in_main"
    /\ Exit(IF returned[1].status = "success" THEN 0 ELSE 1)
    /\ UNCHANGED <<environ, components, phases, results, raised, returned>>
    /\ UNCHANGED <<scoreVars, engineVars, healthVars, fetchVars, discoveryVars>>

InitPipeline ==
    /\ environ \in Environments
    /\ main_pc = "start"
    /\ components = <<>>
    /\ phases = <<>>
    /\ results = None
    /\ raised = None
    /\ returned = None
    /\ exit_code = None
    /\ sig = Signal(1, None, 0, 0, 0, 0)
    /\ ScoreIdle
    /\ EngineIdle
    /\ info = EmptyInfo
    /\ HealthIdle
    /\ FetchIdle
    /\ DiscoveryIdle

NextPipeline ==
    \/ VerifyEnvironment
    \/ BuildComponent
    \/ BuildComponentFails
    \/ StartPipeline
    \/ PhaseReturns
    \/ PhaseRaises
    \/ PhaseInterrupted
    \/ ReturnResults
    \/ ExitOnStatus

SpecPipeline == InitPipeline /\ [][NextPipeline]_vars

\* ---------------------------------------------------------------------
\* fetch_fundamentals: the retry loop
\* ---------------------------------------------------------------------
MaxRetries == 3

\* Variant of retry_allowed that allows one attempt more.
retry_allowed_once_more(att, retries) == att < retries

\* if attempt < max_retries - 1: continue
retry_allowed(att, retries) == att < retries - 1

\* wait_time = 20 * (attempt + 1), slept before attempt number attempt > 0.
wait_time(att) == 20 * (att + 1)

\* The answers of the source used for the retry loop.
FetchInfos ==
    [marketCap : {None, Some(1000000000)}, debtToEquity : {Some(100)},
     profitMargins : {Some(-100), Some(5000)}, revenueGrowth : {None, Some(25)},
     currentPrice : {Some(1000)}, longName : {Some("Acme Corp")}]

\* The attempt gets the source's answer: the record is built and returned.
AttemptSucceeds ==
    /\ fetch_pc = "try"
    /\ fetch_log' = Append(fetch_log, "ok")
    /\ fundamentals' = Some(fetch_fundamentals(info))
    /\ fetch_pc' = "returned"
    /\ UNCHANGED <<max_retries, attempt, waited>>
    /\ UNCHANGED <<info, health_check, fundamental_stats, fund_read>>
    /\ UNCHANGED <<scoreVars, engineVars, pipelineVars, discoveryVars>>

\* The attempt raises an error whose text holds '429' or 'Too Many Requests':
\* the loop continues, after the sleep, unless this was the last attempt.
AttemptRateLimited ==
    /\ fetch_pc = "try"
    /\ fetch_log' = Append(fetch_log, "rate_limit")
    /\ IF retry_allowed(attempt, max_retries)
       THEN /\ attempt' = attempt + 1
            /\ waited' = waited + wait_time(attempt + 1)
            /\ fetch_pc' = "try"
       ELSE /\ fetch_pc' = "returned"
            /\ UNCHANGED <<attempt, waited>>
    /\ UNCHANGED max_retries
    /\ UNCHANGED healthVars
    /\ UNCHANGED <<scoreVars, engineVars, pipelineVars, discoveryVars>>

\* The attempt raises any other error: None is returned at once.
AttemptFails ==
    /\ fetch_pc = "try"
    /\ fetch_log' = Append(fetch_log, "error")
    /\ fetch_pc' = "returned"
    /\ UNCHANGED <<max_retries, attempt, waited>>
    /\ UNCHANGED healthVars
    /\ UNCHANGED <<scoreVars, engineVars, pipelineVars, discoveryVars>>

InitFetch ==
    /\ max_retries \in 1..MaxRetries
    /\ attempt = 0
    /\ fetch_log = <<>>
    /\ waited = 0
    /\ fetch_pc = "try"
    /\ info \in FetchInfos
    /\ HealthIdle
    /\ sig = Signal(1, None, 0, 0, 0, 0)
    /\ ScoreIdle
    /\ EngineIdle
    /\ PipelineIdle
    /\ DiscoveryIdle

NextFetch ==
    \/ AttemptSucceeds
    \/ AttemptRateLimited
    \/ AttemptFails

\* Every attempt ends: the source answers or raises.
SpecFetch == InitFetch /\ [][NextFetch]_vars /\ WF_vars(NextFetch)

\* ---------------------------------------------------------------------
\* Discovery: scrape_apewisdom, track_reddit_mentions, save_to_supabase, and
\* the engine's reading of the reddit_mention_velocity table
\* ---------------------------------------------------------------------
\* Units: time in hours, velocity in hundredths of a percent (Scale). A row's
\* ticker_id is written as the ticker's symbol.
MaxRuns == 2

target_subreddits == <<"wallstreetbets", "stocks", "investing", "RobinHoodPennyStocks">>

\* apewisdom_tickers[:20]
TOP_SYMBOLS == 20

\* hours_back = 24, in Discovery and in the engine.
HOURS_BACK == 24

\* The elements of a sequence.
Range(seq) == {seq[k] : k \in 1..Len(seq)}

RECURSIVE SumCounts(_)
\* sum of the count fields of a sequence of records
SumCounts(seq) ==
    IF seq = <<>> THEN 0 ELSE seq[1].count + SumCounts(Tail(seq))

RECURSIVE Flatten(_)
\* the concatenation of a sequence of sequences
Flatten(seqs) ==
    IF seqs = <<>> THEN <<>> ELSE seqs[1] \o Flatten(Tail(seqs))

\* round(n / d, 0) for d > 0, ties to even.
round_ratio(n, d) ==
    LET q == n \div d
        r == n - q * d
    IN  IF 2 * r > d THEN q + 1
        ELSE IF 2 * r < d THEN q
        ELSE IF q % 2 = 0 THEN q ELSE q + 1

\* The symbols ApeWisdom can list, by rank.
ApeNames ==
    <<"GME", "AMC", "TSLA", "NVDA", "AMD", "AAPL", "MSFT", "GOOGL", "META", "PLTR",
      "BB", "NOK", "BBBY", "WISH", "CLOV", "SOFI", "RIVN", "LCID", "COIN", "HOOD",
      "SDC">>

\* What scrape_apewisdom returns when the page lists n tickers.
scrape_apewisdom(n) ==
    [k \in 1..n |-> [rank |-> k, symbol |-> ApeNames[k],
                     mention_count |-> 10 * (22 - k), upvotes |-> 0,
                     source |-> "APEWISDOM"]]

\* No ticker (also the result of a failed request), two tickers, 21 tickers.
ApeResults == {scrape_apewisdom(0), scrape_apewisdom(2), scrape_apewisdom(21)}

\* The symbols recent posts mention, in the order they are first met.
PostSymbols == <<"GME", "SDC">>

\* Recent posts: per subreddit and symbol, the number of posts mentioning it.
posts_with(gme_wsb, gme_stocks, sdc_wsb) ==
    [sub \in Range(target_subreddits) |->
        [sym \in Range(PostSymbols) |->
            IF sub = "wallstreetbets" /\ sym = "GME" THEN gme_wsb
            ELSE IF sub = "stocks" /\ sym = "GME" THEN gme_stocks
            ELSE IF sub = "wallstreetbets" /\ sym = "SDC" THEN sdc_wsb
            ELSE 0]]

PostSamples ==
    {posts_with(0, 0, 0), posts_with(3, 0, 0), posts_with(3, 2, 0), posts_with(3, 2, 1)}

\* Hours between the start of one Discovery run and the next.
ElapsedSamples == {1, 25, 49}

\* if target_tickers: found_tickers = [t for t in found_tickers if t in target_tickers]
tracked(sym, target_tickers) ==
    IF target_tickers # <<>> THEN sym \in Range(target_tickers) ELSE TRUE

\* mention_data[ticker]['subreddit_distribution'], in scanning order.
subreddit_distribution(posts, sym) ==
    LET subs == SelectSeq(target_subreddits, LAMBDA sub : posts[sub][sym] > 0)
    IN  [k \in 1..Len(subs) |-> [subreddit |-> subs[k], count |-> posts[subs[k]][sym]]]

\* _get_previous_mention_count: the latest row of the ticker not older than
\* 2 * hours_back, 0 without one or for an unknown ticker.
get_previous_mention_count(table, known, ticker, hours_back, at) ==
    IF ticker \notin known THEN 0
    ELSE LET cutoff_time == at - hours_back * 2
             rows == SelectSeq(table, LAMBDA row :
                         row.ticker_id = ticker /\ row.timestamp >= cutoff_time)
         IN  IF rows = <<>> THEN 0 ELSE rows[Len(rows)].mention_count_24h

\* round(velocity_change, 2)
velocity_change_pct(count, previous_count) ==
    IF previous_count > 0
    THEN round_ratio((count - previous_count) * 100 * Scale, previous_count)
    ELSE IF count > 0 THEN 100 * Scale ELSE 0

\* track_reddit_mentions: the mention data of every tracked symbol the posts
\* mention, with the previous count the velocity was computed from.
track_reddit_mentions(target_tickers, hours_back, posts, table, known, at) ==
    LET found == {sym \in Range(PostSymbols) :
                     /\ tracked(sym, target_tickers)
                     /\ subreddit_distribution(posts, sym) # <<>>}
    IN  [sym \in found |->
            LET dist == subreddit_distribution(posts, sym)
                previous_count ==
                    get_previous_mention_count(table, known, sym, hours_back, at)
            IN  [mention_count_24h |-> SumCounts(dist),
                 subreddit_distribution |-> dist,
                 previous_count |-> previous_count,
                 velocity_change_pct |->
                     velocity_change_pct(SumCounts(dist), previous_count)]]

\* The sentiment_logs rows save_to_supabase inserts for the ApeWisdom data.
apewisdom_rows(apewisdom_data, at) ==
    [k \in 1..Len(apewisdom_data) |->
        [ticker_id |-> apewisdom_data[k].symbol, source |-> "APEWISDOM",
         mention_count |-> apewisdom_data[k].mention_count,
         rank |-> Some(apewisdom_data[k].rank), timestamp |-> at]]

\* The reddit_mention_velocity rows save_to_supabase inserts: one per
\* subreddit of each symbol's distribution.
velocity_rows(reddit_data, at) ==
    LET symbols == SelectSeq(PostSymbols, LAMBDA sym : sym \in DOMAIN reddit_data)
    IN  Flatten([n \in 1..Len(symbols) |->
            LET data == reddit_data[symbols[n]]
            IN  [k \in 1..Len(data.subreddit_distribution) |->
                    [ticker_id |-> symbols[n],
                     subreddit |-> data.subreddit_distribution[k].subreddit,
                     mention_count_24h |-> data.subreddit_distribution[k].count,
                     velocity_change_pct |-> data.velocity_change_pct,
                     timestamp |-> at]]])

\* The sentiment_logs rows save_to_supabase inserts for the Reddit data.
reddit_rows(reddit_data, at) ==
    LET symbols == SelectSeq(PostSymbols, LAMBDA sym : sym \in DOMAIN reddit_data)
    IN  [n \in 1..Len(symbols) |->
            [ticker_id |-> symbols[n], source |-> "REDDIT",
             mention_count |-> reddit_data[symbols[n]].mention_count_24h,
             rank |-> None, timestamp |-> at]]

\* .order('timestamp', desc=True).limit(1): rows are in insertion order.
latest_row(rows) == IF rows = <<>> THEN <<>> ELSE <<rows[Len(rows)]>>

\* get_recent_data: reddit_mentions_24h and reddit_velocity_pct of a ticker,
\* from the response of the reddit_mention_velocity query.
reddit_signal(table, ticker, hours_back, at) ==
    LET cutoff_time == at - hours_back
        velocity_response ==
            latest_row(SelectSeq(table, LAMBDA row :
                row.ticker_id = ticker /\ row.timestamp >= cutoff_time))
    IN  IF velocity_response = <<>>
        THEN [symbol |-> ticker, reddit_mentions_24h |-> 0, reddit_velocity_pct |-> 0]
        ELSE [symbol |-> ticker,
              reddit_mentions_24h |-> 0 + velocity_response[1].mention_count_24h,
              reddit_velocity_pct |->
                  IF velocity_response[1].velocity_change_pct > 0
                  THEN velocity_response[1].velocity_change_pct ELSE 0]

\* DiscoveryEngine.run, started elapsed hours after the previous run: scrape,
\* track the first 20 symbols on Reddit, save everything.
DiscoveryRun ==
    /\ runs < MaxRuns
    /\ \E elapsed \in (IF runs = 0 THEN {0} ELSE ElapsedSamples),
          apewisdom_tickers \in ApeResults, posts \in PostSamples :
          LET at == now + elapsed
              n == IF Len(apewisdom_tickers) < TOP_SYMBOLS
                   THEN Len(apewisdom_tickers) ELSE TOP_SYMBOLS
              top_symbols == [k \in 1..n |-> apewisdom_tickers[k].symbol]
              reddit_mentions ==
                  track_reddit_mentions(top_symbols, HOURS_BACK, posts,
                                        reddit_mention_velocity, tickers, at)
          IN  /\ now' = at
              /\ tickers' = tickers
                    \cup {apewisdom_tickers[k].symbol : k \in 1..Len(apewisdom_tickers)}
                    \cup DOMAIN reddit_mentions
              /\ sentiment_logs' = sentiment_logs
                    \o apewisdom_rows(apewisdom_tickers, at)
                    \o reddit_rows(reddit_mentions, at)
              /\ reddit_mention_velocity' =
                    reddit_mention_velocity \o velocity_rows(reddit_mentions, at)
              /\ last_discovery' = Some([at |-> at,
                                         apewisdom_tickers |-> apewisdom_tickers,
                                         reddit_mentions |-> reddit_mentions,
                                         rows_before |-> Len(reddit_mention_velocity)])
    /\ runs' = runs + 1
    /\ velocity_read' = None
    /\ UNCHANGED <<scoreVars, engineVars, healthVars, pipelineVars, fetchVars>>

\* get_recent_data, in the engine phase that follows the Discovery run, reads
\* the Reddit data of one ticker of the tickers table.
ReadVelocity ==
    /\ velocity_read = None
    /\ \E ticker \in tickers \cap Range(PostSymbols) :
          velocity_read' = Some(reddit_signal(reddit_mention_velocity, ticker, HOURS_BACK, now))
    /\ UNCHANGED <<now, runs, tickers, sentiment_logs, reddit_mention_velocity, last_discovery>>
    /\ UNCHANGED <<scoreVars, engineVars, healthVars, pipelineVars, fetchVars>>

InitDiscovery ==
    /\ DiscoveryIdle
    /\ sig = Signal(1, None, 0, 0, 0, 0)
    /\ ScoreIdle
    /\ EngineIdle
    /\ info = EmptyInfo
    /\ HealthIdle
    /\ PipelineIdle
    /\ FetchIdle

NextDiscovery ==
    \/ DiscoveryRun
    \/ ReadVelocity

SpecDiscovery == InitDiscovery /\ [][NextDiscovery]_vars

\* The admission condition as the documentation states it, in the model's units.
AdmissionCondition(td) ==
    /\ td.apewisdom_rank # None
    /\ td.apewisdom_rank[1] <= 20
    /\ td.reddit_velocity_pct >= 2000
    /\ td.health_score >= 60
    /\ calculate_confidence_score(td).score >= 7000

\* =====================================================================
\* Properties of flag creation (checked under Spec and SpecConc)
\* =====================================================================

\* The rows of a table that are OPEN flags of ticker t.
OpenRows(table, t) ==
    {k \in 1..Len(table) : table[k].ticker_id = t /\ table[k].status = "OPEN"}

OpenCount(t) == Cardinality(OpenRows(trading_flags, t))

\* The candidates of execution p's batch that ended with the given outcome.
WithOutcome(p, what) == {k \in 1..Len(outcome[p]) : outcome[p][k] = what}

\* C1: under sequential execution, whatever the batches (a ticker listed twice
\* included), the table never holds more than one OPEN flag for a ticker_id.
C1_AtMostOneOpen == \A t \in TickerIds : OpenCount(t) <= 1

\* A batch listing ticker 1 twice has been processed: the first candidate was
\* inserted, the second one skipped.
C1_Witness ==
    /\ pc["first"] = "returned"
    /\ Len(flags["first"]) = 2
    /\ flags["first"][1].ticker_id = 1
    /\ flags["first"][2].ticker_id = 1
    /\ outcome["first"] = <<"created", "skipped">>
    /\ OpenCount(1) = 1

\* C2: when two executions overlap, every insert that follows a passed check
\* adds a row, whatever the other execution did in between: the OPEN flags of a
\* ticker are as many as the inserts made for it, so both executions inserting
\* for one ticker leaves two OPEN flags.
C2_Race ==
    \A t \in TickerIds :
        /\ OpenCount(t) =
              Cardinality({<<p, k>> \in Procs \X (1..MaxBatch) :
                              /\ k \in WithOutcome(p, "created")
                              /\ flags[p][k].ticker_id = t})
        /\ (\A p \in Procs : pc[p] = "insert" /\ flags[p][i[p]].ticker_id = t) =>
              OpenCount(t) = 0

\* Both executions have inserted a flag for ticker 1: two OPEN flags.
C2_Witness ==
    /\ \A p \in Procs : \E k \in WithOutcome(p, "created") : flags[p][k].ticker_id = 1
    /\ OpenCount(1) = 2

\* Every ticker of execution p's batch had an OPEN flag when the call began.
AllOpenBefore(p) ==
    \A k \in 1..Len(flags[p]) : OpenRows(before[p], flags[p][k].ticker_id) # {}

\* C3: a call of create_trading_flags on a batch whose tickers all have an
\* OPEN flag already returns 0 and leaves the table as it was.
C3_Idempotent ==
    \A p \in Procs :
        (pc[p] # "idle" /\ AllOpenBefore(p)) =>
            /\ trading_flags = before[p]
            /\ created_count[p] = 0
            /\ pc[p] = "returned" => ret[p] = Some(0)

\* A second call on a two-candidate batch found both tickers flagged.
C3_Witness ==
    /\ calls = 2
    /\ pc["first"] = "returned"
    /\ Len(flags["first"]) = 2
    /\ flags["first"][1].ticker_id # flags["first"][2].ticker_id
    /\ AllOpenBefore("first")
    /\ outcome["first"] = <<"skipped", "skipped">>
    /\ ret["first"] = Some(0)

\* C4: a failing query or insert for one candidate does not end the call:
\* every candidate of the batch is processed, and the value returned is the
\* number of successful inserts, which is the number of rows added.
C4_PartialBatch ==
    \A p \in Procs :
        /\ pc[p] \in {"check", "insert"} =>
              (i[p] \in 1..Len(flags[p]) /\ Len(outcome[p]) = i[p] - 1)
        /\ pc[p] = "returned" =>
              /\ ret[p] # None
              /\ Len(outcome[p]) = Len(flags[p])
              /\ ret[p][1] = Cardinality(WithOutcome(p, "created"))
              /\ ret[p][1] \in 0..Len(flags[p])
              /\ Len(trading_flags) = Len(before[p]) + ret[p][1]

\* The first candidate failed (query or insert), the second one was inserted.
C4_Witness ==
    /\ pc["first"] = "returned"
    /\ Len(outcome["first"]) = 2
    /\ outcome["first"][1] \in {"query_error", "insert_error"}
    /\ outcome["first"][2] = "created"
    /\ ret["first"] = Some(1)

\* The rows added to the table since execution p's call began, for ticker t.
NewRows(p, t) ==
    SelectSeq(SubSeq(trading_flags, Len(before[p]) + 1, Len(trading_flags)),
              LAMBDA row : row.ticker_id = t)

ScenarioA(td) ==
    /\ td.apewisdom_rank = Some(3)
    /\ td.reddit_velocity_pct = 15000
    /\ td.health_score = 80
    /\ TotalMentions(td) = 1200

\* C7: in a run whose store operations succeed, every ticker that passes the
\* four rules and has no OPEN flag gets exactly one new flag, with status OPEN,
\* flag_type BUY and the computed confidence (95 in scenario A).
C7_FlagOnPass ==
    \A p \in Procs :
        (kind[p] = "run" /\ pc[p] = "returned"
            /\ WithOutcome(p, "query_error") = {} /\ WithOutcome(p, "insert_error") = {}) =>
        \A k \in 1..Len(ticker_data[p]) :
            LET td == ticker_data[p][k]
                new == NewRows(p, td.ticker_id)
            IN  (AdmissionCondition(td) /\ OpenRows(before[p], td.ticker_id) = {}) =>
                    /\ Len(new) = 1
                    /\ new[1].status = "OPEN"
                    /\ new[1].flag_type = "BUY"
                    /\ new[1].confidence_score = calculate_confidence_score(td).score
                    /\ ScenarioA(td) => new[1].confidence_score = 9500

\* A run has flagged a scenario-A ticker with confidence 95.
C7_Witness ==
    /\ kind["first"] = "run"
    /\ pc["first"] = "returned"
    /\ \E k \in 1..Len(ticker_data["first"]) :
          LET td == ticker_data["first"][k]
          IN  /\ ScenarioA(td)
              /\ OpenRows(before["first"], td.ticker_id) = {}
              /\ Len(NewRows("first", td.ticker_id)) = 1
              /\ NewRows("first", td.ticker_id)[1].confidence_score = 9500
    /\ outcome["first"] # <<>>
    /\ \A k \in 1..Len(outcome["first"]) : outcome["first"][k] \in {"created", "skipped"}

\* =====================================================================
\* Properties of the pure methods (checked under SpecScore)
\* =====================================================================

GateOrder == <<"RankGate", "VelocityGate", "HealthGate", "ConfidenceGate">>

\* Whether the named rule rejects the signal, as the documentation states it.
RuleRejects(rule, td) ==
    CASE rule = "RankGate" ->
            IF td.apewisdom_rank = None THEN TRUE ELSE td.apewisdom_rank[1] > 20
      [] rule = "VelocityGate" -> td.reddit_velocity_pct < 2000
      [] rule = "HealthGate" -> td.health_score < 60
      [] rule = "ConfidenceGate" -> calculate_confidence_score(td).score < 7000

\* C6: evaluate_ticker examines RankGate, VelocityGate, HealthGate and
\* ConfidenceGate in this order and stops at the first rule that rejects; the
\* confidence score is computed only after the first three rules have passed,
\* and an absent rank is rejected before any other rule is examined.
C6_GateOrdering ==
    /\ Len(examined) <= Len(GateOrder)
    /\ examined = SubSeq(GateOrder, 1, Len(examined))
    /\ \A k \in 1..Len(examined) :
          RuleRejects(examined[k], sig) <=> (k = Len(examined) /\ gate = "Rejected")
    /\ gate = "Candidate" => examined = GateOrder
    /\ confidence # None =>
          /\ SubSeq(examined, 1, 3) = <<"RankGate", "VelocityGate", "HealthGate">>
          /\ \A k \in 1..3 : ~RuleRejects(GateOrder[k], sig)
    /\ (sig.apewisdom_rank = None /\ gate \in {"Rejected", "Candidate"}) =>
          (gate = "Rejected" /\ examined = <<"RankGate">> /\ confidence = None)

\* Scenario C: a signal without rank has been rejected by the first rule alone,
\* although its velocity and health would have passed.
C6_Witness ==
    /\ sig.apewisdom_rank = None
    /\ sig.reddit_velocity_pct >= 2000
    /\ sig.health_score >= 60
    /\ gate = "Rejected"
    /\ examined = <<"RankGate">>
    /\ confidence = None

\* C8: the score returned by calculate_confidence_score lies in [0,100] for
\* every signal of the declared domain, negative velocities included.
C8_BoundedConfidence ==
    scored # None => (scored[1].score >= 0 /\ scored[1].score <= 100 * Scale)

\* b is a (an absent rank being the worst), or a present rank not worse than a.
RankNotWorse(a, b) ==
    IF a = None THEN TRUE
    ELSE IF b = None THEN FALSE
    ELSE b[1] <= a[1]

\* t differs from s in at most one input, and is not worse in that input.
OneInputNotWorse(s, t) ==
    \/ /\ t = [s EXCEPT !.apewisdom_rank = t.apewisdom_rank]
       /\ RankNotWorse(s.apewisdom_rank, t.apewisdom_rank)
    \/ /\ t = [s EXCEPT !.reddit_velocity_pct = t.reddit_velocity_pct]
       /\ t.reddit_velocity_pct >= s.reddit_velocity_pct
    \/ /\ t = [s EXCEPT !.health_score = t.health_score]
       /\ t.health_score >= s.health_score
    \/ /\ t = [s EXCEPT !.apewisdom_mentions = t.apewisdom_mentions,
                        !.reddit_mentions_24h = t.reddit_mentions_24h]
       /\ TotalMentions(t) >= TotalMentions(s)

\* C9: when the second of two signals differs from the first in one input and
\* is better or equal there (rank, velocity, health or total mentions), its
\* confidence score is not lower than the first one's.
C9_Monotone ==
    (prev # None /\ scored # None /\ OneInputNotWorse(prev[1].td, sig)) =>
        scored[1].score >= prev[1].score

\* The velocity crossed the 20 percent step and the score rose with it.
C9_Witness ==
    /\ prev # None
    /\ scored # None
    /\ prev[1].td.reddit_velocity_pct = 1975
    /\ sig.reddit_velocity_pct = 2000
    /\ OneInputNotWorse(prev[1].td, sig)
    /\ scored[1].score > prev[1].score

\* The rank contribution as the documentation states it, in points.
DocumentedRankPoints(rank) ==
    IF rank = None THEN 0
    ELSE IF rank[1] <= 5 THEN 30
    ELSE IF rank[1] <= 10 THEN 25
    ELSE IF rank[1] <= 20 THEN 20
    ELSE 10

\* C10: the rank contribution is 30 / 25 / 20 / 10 for rank <= 5 / 6..10 /
\* 11..20 / > 20; an absent rank contributes 0 and leaves 'apewisdom_rank' out
\* of the breakdown; the three other factor keys are always present.
C10_RankFactor ==
    scored # None =>
        LET b == scored[1].breakdown
            rank == sig.apewisdom_rank
        IN  /\ {"reddit_velocity", "fundamental_health", "mention_volume"} \subseteq DOMAIN b
            /\ ("apewisdom_rank" \in DOMAIN b) <=> (rank # None)
            /\ rank # None => b["apewisdom_rank"] = DocumentedRankPoints(rank) * Milli
            /\ scored[1].score =
                  Round2(DocumentedRankPoints(rank) * Milli + b["reddit_velocity"]
                         + b["fundamental_health"] + b["mention_volume"])

\* A signal without rank has been scored: three keys, no rank key.
C10_Witness ==
    /\ scored # None
    /\ sig.apewisdom_rank = None
    /\ DOMAIN scored[1].breakdown =
          {"reddit_velocity", "fundamental_health", "mention_volume"}

\* The velocity contribution as the documentation states it, in thousandths
\* of a point, for a velocity v in hundredths of a percent: 10 * (v / 20)
\* below 20 percent is half the percentage.
DocumentedVelocityMilli(v) ==
    IF v >= 10000 THEN 30000
    ELSE IF v >= 5000 THEN 25000
    ELSE IF v >= 2000 THEN 20000
    ELSE 5 * v

\* C11: the velocity contribution is 30 for v >= 100, 25 for 50 <= v < 100,
\* 20 for 20 <= v < 50 and 10 * (v / 20) for v < 20: negative for negative v,
\* below 10 just under 20 percent, and -20, 0, 9.5, 20, 25, 25, 30, 30 for
\* v = -40, 0, 19, 20, 50, 99, 100, 200.
C11_VelocityFactor ==
    scored # None =>
        LET v == sig.reddit_velocity_pct
            c == scored[1].breakdown["reddit_velocity"]
        IN  /\ c = DocumentedVelocityMilli(v)
            /\ v < 0 => c < 0
            /\ v < 2000 => c < 10000
            /\ v = -4000 => c = -20000
            /\ v = 0 => c = 0
            /\ v = 1900 => c = 9500
            /\ v = 2000 => c = 20000
            /\ v \in {5000, 9900} => c = 25000
            /\ v \in {10000, 20000} => c = 30000

\* A signal with velocity -40 percent has been scored: the factor is -20.
C11_Witness ==
    /\ scored # None
    /\ sig.reddit_velocity_pct = -4000
    /\ scored[1].breakdown["reddit_velocity"] = -20000


\* ---------------------------------------------------------------------
\* Properties of check_health and of the engine's health score
\* ---------------------------------------------------------------------
\* The health score of the bonus rule: growth above 20 percent.
GrowthBonusApplies(fund) ==
    Truthy(fund.revenue_growth) /\ fund.revenue_growth[1] > 2000

\* The record of the round-trip example: market cap absent, debt-to-equity
\* 1.0, profit margin 5 percent, price and company name present, no bonus.
RoundTripExample(fund) ==
    /\ fund.market_cap = None
    /\ fund.debt_to_equity = Some(100)
    /\ fund.profit_margin = Some(5000)
    /\ Truthy(fund.current_price)
    /\ TruthyText(fund.company_name)
    /\ ~GrowthBonusApplies(fund)

\* C12 as stated: for market_cap absent, debt_to_equity = 1.0 and
\* profit_margin = 5, check_health returns health_score = 70 with exactly one
\* reason and is_healthy = True.
C12_RoundTripAsStated ==
    (health_check # None /\ RoundTripExample(fundamentals[1])) =>
        /\ health_check[1].health_score = 70
        /\ Len(health_check[1].reasons) = 1
        /\ health_check[1].is_healthy

\* C12 amended: for that record check_health returns health_score = 55 with
\* exactly two reasons (the missing market cap, and the market cap as a
\* missing critical field) and is_healthy = False.
C12_RoundTrip ==
    (health_check # None /\ RoundTripExample(fundamentals[1])) =>
        /\ health_check[1].health_score = 55
        /\ health_check[1].reasons = <<"Missing market cap data", "Missing critical data">>
        /\ ~health_check[1].is_healthy

\* check_health has assessed the record of the round-trip example.
C12_Witness ==
    /\ health_check # None
    /\ RoundTripExample(fundamentals[1])
    /\ health_check[1].health_score = 55
    /\ Len(health_check[1].reasons) = 2

\* The critical fields that are absent (None, zero or empty) in a record.
AbsentCritical(fund) ==
    {f \in {"market_cap", "current_price", "company_name"} :
        IF f = "company_name" THEN fund[f] \in {None, Some("")}
        ELSE fund[f] \in {None, Some(0)}}

\* Every deduction other than the one for missing critical fields, less the
\* growth bonus, as check_health applies them.
OtherAdjustments(fund) ==
    (IF fund.market_cap = None \/ ~Truthy(fund.market_cap) THEN 30
     ELSE IF fund.market_cap[1] < 500000000 THEN 30 ELSE 0)
    + (IF "Debt-to-equity exceeds maximum" \in
             {health_check[1].reasons[k] : k \in 1..Len(health_check[1].reasons)}
       THEN 20 ELSE 0)
    + (IF "Profit margin below minimum" \in
             {health_check[1].reasons[k] : k \in 1..Len(health_check[1].reasons)}
       THEN 25 ELSE 0)
    - (IF GrowthBonusApplies(fund) THEN 10 ELSE 0)

\* C13: each absent field among market_cap, current_price and company_name
\* deducts exactly 15 points, on top of one another and of every other
\* triggered deduction (45 when all three are absent), and the returned
\* score is clamped at 0.
C13_MissingFieldStacking ==
    health_check # None =>
        LET fund == fundamentals[1]
            total == 100 - OtherAdjustments(fund) - 15 * Cardinality(AbsentCritical(fund))
            score == health_check[1].health_score
        IN  /\ score >= 0
            /\ total < 0 => score = 0
            /\ total \in 0..100 => score = total
            /\ Cardinality(AbsentCritical(fund)) = 3 => score <= 100 - 30 - 45 + 10

\* All three critical fields are absent and the debt and margin deductions
\* apply as well: 100 - 30 - 45 - 20 - 25 is below 0 and the score is 0.
C13_Witness ==
    /\ health_check # None
    /\ Cardinality(AbsentCritical(fundamentals[1])) = 3
    /\ Len(health_check[1].reasons) = 4
    /\ health_check[1].health_score = 0

\* C14: the score check_health returns and the health score get_recent_data
\* derives both lie in [0, 100], also when the growth bonus applies to a
\* record without deductions.
C14_HealthBounded ==
    /\ health_check # None => health_check[1].health_score \in 0..100
    /\ fund_read # None => fund_read[1].health_score \in 0..100

\* A record without any deduction and with the bonus has been assessed (100)
\* and the engine has derived its score from the saved row.
C14_Witness ==
    /\ health_check # None
    /\ health_check[1].reasons = <<>>
    /\ GrowthBonusApplies(fundamentals[1])
    /\ health_check[1].health_score = 100
    /\ fund_read # None
    /\ fund_read[1].latest # None

\* C15: check_health applies the 25-point profit-margin deduction and adds
\* its reason exactly when the margin, in percent, is below -50; a margin of
\* -10 percent incurs no deduction.
C15_MarginThreshold ==
    health_check # None =>
        LET margin == fundamentals[1].profit_margin
            deducted == \E k \in 1..Len(health_check[1].reasons) :
                            health_check[1].reasons[k] = "Profit margin below minimum"
        IN  deducted <=> (margin # None /\ margin[1] < -50000)

\* C16: is_healthy is True if and only if the clamped score is at least 60
\* and there is at most one reason; score >= 60 with two or more reasons is
\* unhealthy.
C16_HealthyVerdict ==
    health_check # None =>
        (health_check[1].is_healthy <=>
            (health_check[1].health_score >= 60 /\ Len(health_check[1].reasons) <= 1))

\* A record with score 65 and two reasons has been reported unhealthy.
C16_Witness ==
    /\ health_check # None
    /\ health_check[1].health_score = 65
    /\ Len(health_check[1].reasons) = 2
    /\ ~health_check[1].is_healthy

RulesCoincide(fund) ==
    /\ AbsentCritical(fund) = {}
    /\ ~GrowthBonusApplies(fund)
    /\ \/ fund.profit_margin = None
       \/ fund.profit_margin[1] >= -500
       \/ fund.profit_margin[1] < -50000

OtherRecentRows(rows, t) ==
    {rows[k] : k \in {n \in 1..Len(rows) :
        /\ rows[n].ticker_id # t
        /\ (rows[n].apewisdom_rank # None \/ rows[n].reddit_mentions_24h > 0)}}

\* C18: when a store read fails while get_recent_data collects the data of
\* one ticker, only that ticker is skipped: the signals of all other tickers
\* with recent data are still returned and evaluated.
C18_PerTickerIsolation ==
    \A p \in Procs :
        read_error[p] # None =>
            OtherRecentRows(store_read[p], read_error[p][1])
                \subseteq {ticker_data[p][k] : k \in 1..Len(ticker_data[p])}


\* ---------------------------------------------------------------------
\* Properties of main() and run_pipeline
\* ---------------------------------------------------------------------
RequiredSettings ==
    {"SUPABASE_URL", "SUPABASE_KEY", "REDDIT_CLIENT_ID", "REDDIT_CLIENT_SECRET",
     "REDDIT_USER_AGENT"}

\* C19: when a required environment setting is missing, the construction of
\* the orchestrator raises before any component is built or any pipeline
\* step runs, and the process exits with a non-zero status.
C19_FatalConfiguration ==
    RequiredSettings \ environ # {} =>
        /\ components = <<>>
        /\ phases = <<>>
        /\ results = None
        /\ main_pc \in {"start", "exited"}
        /\ main_pc = "exited" => exit_code = Some(1)

\* With only REDDIT_USER_AGENT missing the process has exited with status 1.
C19_Witness ==
    /\ environ = RequiredSettings \ {"REDDIT_USER_AGENT"}
    /\ main_pc = "exited"
    /\ exit_code = Some(1)
    /\ components = <<>>

\* The phases whose results are in the dict.
PhasesReturned(res) == {ph \in {"discovery", "validation", "engine"} : res[ph] # None}

\* C20: run_pipeline runs Discovery, Validation, Engine in this order; a
\* phase that raises stops the later phases and gives status 'failed' with a
\* non-empty errors list; the status is 'success' only if all three phases
\* returned; the returned status is never 'running'.
C20_PipelineOrder ==
    /\ phases = SubSeq(<<"discovery", "validation", "engine">>, 1, Len(phases))
    /\ raised # None =>
          /\ phases # <<>>
          /\ phases[Len(phases)] = raised[1]
          /\ results[1].status = "failed"
          /\ results[1].errors # <<>>
    /\ results # None =>
          /\ results[1].status = "success" =>
                PhasesReturned(results[1]) = {"discovery", "validation", "engine"}
          /\ results[1].status = "failed" => results[1].errors # <<>>
          /\ PhasesReturned(results[1]) \subseteq {phases[k] : k \in 1..Len(phases)}
    /\ returned # None =>
          /\ returned[1].status \in {"success", "failed"}
          /\ returned[1].status = "success" <=> raised = None
          /\ main_pc = "exited" =>
                exit_code = Some(IF returned[1].status = "success" THEN 0 ELSE 1)

\* Validation raised after Discovery returned: the Engine phase never ran and
\* run_pipeline returned status 'failed' with one error.
C20_Witness ==
    /\ returned # None
    /\ raised = Some("validation")
    /\ phases = <<"discovery", "validation">>
    /\ returned[1].status = "failed"
    /\ Len(returned[1].errors) = 1
    /\ returned[1].engine = None


\* ---------------------------------------------------------------------
\* Properties of the signals a run reads and the flags it persists
\* ---------------------------------------------------------------------
\* C21: every ticker signal get_recent_data returns, and so every ticker a
\* run scores or gates, has a non-null apewisdom_rank or more than zero
\* reddit_mentions_24h; tickers with neither are dropped before evaluation.
C21_Materialized ==
    \A p \in Procs :
        \A k \in 1..Len(ticker_data[p]) :
            \/ ticker_data[p][k].apewisdom_rank # None
            \/ ticker_data[p][k].reddit_mentions_24h > 0

\* A run has read a store holding a ticker without rank and mentions next to
\* one with a signal: the first was dropped, the second returned.
C21_Witness ==
    \E p \in Procs :
        /\ kind[p] = "run"
        /\ read_error[p] = None
        /\ \E k \in 1..Len(store_read[p]) :
              /\ store_read[p][k].apewisdom_rank = None
              /\ store_read[p][k].reddit_mentions_24h = 0
        /\ Len(ticker_data[p]) > 0
        /\ Len(ticker_data[p]) < Len(store_read[p])


\* Execution p is a run that read at least one ticker and rejected them all.
AllRejectedRun(p) ==
    /\ kind[p] = "run"
    /\ read_error[p] = None
    /\ ticker_data[p] # <<>>
    /\ \A k \in 1..Len(ticker_data[p]) : ~AdmissionCondition(ticker_data[p][k])

\* C24: rejections are not persisted: the trading_flags table changes only
\* by the insert of the candidate at hand in create_trading_flags, and a run
\* in which every ticker is rejected leaves the table as it was and reports
\* flagged = 0 and created = 0.
C24_RejectionsNotPersisted ==
    /\ [](\A p \in Procs :
            AllRejectedRun(p) =>
                /\ flags[p] = <<>>
                /\ pc[p] = "returned"
                /\ ret[p] = Some(0)
                /\ trading_flags = before[p])
    /\ [][trading_flags' # trading_flags =>
            \E p \in Procs :
                /\ pc[p] = "insert"
                /\ trading_flags' = Append(trading_flags, flags[p][i[p]])]_vars

\* After a call that stored flags, a run has read tickers and rejected all
\* of them: the table still holds exactly the earlier flags.
C24_Witness ==
    \E p \in Procs :
        /\ AllRejectedRun(p)
        /\ pc[p] = "returned"
        /\ trading_flags # <<>>
        /\ trading_flags = before[p]


\* C27: every flag a run inserts has status OPEN, flag_type BUY, a
\* confidence_score in [70, 100] and metadata with apewisdom_rank in 1..20,
\* reddit_velocity_pct >= 20 and health_score >= 60; no flag with a
\* confidence below 70 or below 0 is ever persisted.
C27_PersistedFlags ==
    \A k \in 1..Len(trading_flags) :
        LET flag == trading_flags[k]
        IN  /\ flag.status = "OPEN"
            /\ flag.flag_type = "BUY"
            /\ flag.confidence_score >= 7000
            /\ flag.confidence_score <= 10000
            /\ flag.metadata.apewisdom_rank # None
            /\ flag.metadata.apewisdom_rank[1] \in 1..20
            /\ flag.metadata.reddit_velocity_pct >= 2000
            /\ flag.metadata.health_score >= 60

\* A flag with the lowest admissible confidence, 70, has been inserted.
C27_Witness ==
    /\ trading_flags # <<>>
    /\ trading_flags[1].confidence_score = 7000
    /\ gate = "Candidate"


\* The rows of a table that belong to ticker t and are CLOSED.
ClosedRows(table, t) ==
    {k \in 1..Len(table) : table[k].ticker_id = t /\ table[k].status = "CLOSED"}

\* C28: with an external process closing OPEN flags between sequential runs,
\* the table still never holds two OPEN flags for one ticker_id, CLOSED flags
\* never block creation, and a ticker whose only flags are CLOSED gets a new
\* flag in the next run in which it passes all gates.
C28_Closure ==
    /\ \A t \in TickerIds : Cardinality(OpenRows(trading_flags, t)) <= 1
    /\ \A p \in Procs :
          (kind[p] = "run" /\ pc[p] = "returned") =>
             \A k \in 1..Len(ticker_data[p]) :
                LET td == ticker_data[p][k]
                IN  (AdmissionCondition(td) /\ OpenRows(before[p], td.ticker_id) = {}) =>
                        Len(NewRows(p, td.ticker_id)) = 1

\* A run has given a new OPEN flag to a ticker whose earlier flag was CLOSED.
C28_Witness ==
    \E p \in Procs, t \in TickerIds :
        /\ kind[p] = "run"
        /\ pc[p] = "returned"
        /\ ClosedRows(before[p], t) # {}
        /\ OpenRows(before[p], t) = {}
        /\ Len(NewRows(p, t)) = 1
        /\ NewRows(p, t)[1].status = "OPEN"
        /\ Cardinality(OpenRows(trading_flags, t)) = 1


\* ---------------------------------------------------------------------
\* Validation's verdict against the engine's health rule
\* ---------------------------------------------------------------------
\* A record whose debt-to-equity is too high and whose current price is
\* missing, everything else in order and no growth bonus.
DebtAndMissingPrice(fund) ==
    /\ fund.market_cap # None
    /\ fund.market_cap[1] >= 500000000
    /\ fund.debt_to_equity # None
    /\ fund.debt_to_equity[1] > 200
    /\ fund.profit_margin = None
    /\ fund.current_price \in {None, Some(0)}
    /\ fund.company_name \notin {None, Some("")}
    /\ ~GrowthBonusApplies(fund)

\* C25: the two health checks can disagree: for a record with a numeric
\* score of 65 and two reasons (debt too high, current price missing)
\* check_health returns is_healthy = False while the engine's health score
\* for the saved snapshot is at least 60, so its HealthGate passes.
C25_ChecksDisagree ==
    (health_check # None /\ DebtAndMissingPrice(fundamentals[1])) =>
        /\ health_check[1].health_score = 65
        /\ Len(health_check[1].reasons) = 2
        /\ ~health_check[1].is_healthy
        /\ (fund_read # None /\ fund_read[1].latest # None) =>
              fund_read[1].health_score >= 60

\* Such a record has been assessed unhealthy and saved, and the engine has
\* derived 80 from the saved row.
C25_Witness ==
    /\ health_check # None
    /\ DebtAndMissingPrice(fundamentals[1])
    /\ ~health_check[1].is_healthy
    /\ fund_read # None
    /\ fund_read[1].latest # None
    /\ fund_read[1].health_score = 80

\* C26: for every snapshot check_health reports healthy, the health score the
\* engine derives from the saved fields is at least 60: the HealthGate never
\* rejects a ticker that Validation reported healthy.
C26_HealthyPassesGate ==
    (health_check # None /\ fund_read # None /\ fund_read[1].latest # None) =>
        (health_check[1].is_healthy => fund_read[1].health_score >= 60)

\* A record with a small market cap, reported healthy with score 70, for
\* which the engine has derived 70 from the saved row.
C26_Witness ==
    /\ health_check # None
    /\ health_check[1].is_healthy
    /\ health_check[1].reasons = <<"Market cap below minimum">>
    /\ fund_read # None
    /\ fund_read[1].latest # None
    /\ fund_read[1].health_score = 70


RowsBeforeLastRun ==
    SubSeq(reddit_mention_velocity, 1, last_discovery[1].rows_before)

\* The rows of reddit_mention_velocity the last Discovery run inserted.
RowsOfLastRun ==
    SubSeq(reddit_mention_velocity, last_discovery[1].rows_before + 1,
           Len(reddit_mention_velocity))

\* The most recent stored count of a ticker whose timestamp lies between
\* 2 * HOURS_BACK and HOURS_BACK before the run, 0 without one.
PreviousWindowCount(table, ticker, at) ==
    LET rows == SelectSeq(table, LAMBDA row :
                    /\ row.ticker_id = ticker
                    /\ row.timestamp >= at - 2 * HOURS_BACK
                    /\ row.timestamp <= at - HOURS_BACK)
    IN  IF rows = <<>> THEN 0 ELSE rows[Len(rows)].mention_count_24h

\* C22: the previous count a Discovery run uses for a ticker's velocity is the
\* most recent stored count between 2 * lookback and lookback hours before the
\* run; a record stored inside the current window is never used as previous.
C22_PreviousWindow ==
    last_discovery # None =>
        \A sym \in DOMAIN last_discovery[1].reddit_mentions :
            last_discovery[1].reddit_mentions[sym].previous_count =
                PreviousWindowCount(RowsBeforeLastRun, sym, last_discovery[1].at)

\* C23: for a ticker whose latest Discovery run stored counts for several
\* communities, the reddit_mentions_24h the engine reads equals the sum of
\* those per-community counts.
C23_CrossCommunitySum ==
    (velocity_read # None /\ last_discovery # None) =>
        (velocity_read[1].symbol \in DOMAIN last_discovery[1].reddit_mentions =>
            velocity_read[1].reddit_mentions_24h =
                SumCounts(last_discovery[1].reddit_mentions[velocity_read[1].symbol]
                              .subreddit_distribution))

\* The symbols of the first 20 entries of the last run's ApeWisdom result.
TopTwentyOfLastRun ==
    {last_discovery[1].apewisdom_tickers[k].symbol :
        k \in {j \in 1..Len(last_discovery[1].apewisdom_tickers) : j <= 20}}

\* C30: every Discovery run collects and stores Reddit mention data only for
\* symbols among the first 20 entries of its ApeWisdom result, and for none
\* when the ApeWisdom result is empty.
C30_TrackingLimitedToTopTwenty ==
    last_discovery # None =>
        /\ DOMAIN last_discovery[1].reddit_mentions \subseteq TopTwentyOfLastRun
        /\ \A k \in 1..Len(RowsOfLastRun) :
              RowsOfLastRun[k].ticker_id \in TopTwentyOfLastRun

====
